---- MODULE Spec2Model ----
(***************************************************************************)
(* Model of ast-importer/src/renamer.rs: Scope<T> and Renamer<T>.          *)
(* Output names are strings; format!("{}_{}", basename, i) is string       *)
(* concatenation with the decimal rendering of i.  Option<String> is a set *)
(* of at most one string: None is {} and Some(n) is {n}.                   *)
(***************************************************************************)
EXTENDS Integers, Sequences, FiniteSets, TLC

\* Bounds of the exploration.
MaxDepth == 2
MaxFresh == 2

\* Inputs the client may supply.
Keys == {1, 2}
Basenames == {"one", "one_0"}
FreshKeys == {1}
FreshBasenames == {"fresh0", "fresh1", "fresh0_0"}
ClashBasenames == {"fresh0"}
ReservedSets == {{}, {"one", "fresh0", "fresh0_0", "fresh1"}}

VARIABLES
    scopes,          \* Renamer.scopes: Vec<Scope<T>>, base scope first
    next_fresh,      \* Renamer.next_fresh: u64
    reserved_names,  \* the argument Renamer::new was called with
    op,              \* the method called last
    key,             \* its key argument (0 when it takes none)
    basename,        \* its basename argument ("" when it takes none)
    ret,             \* its Option<String> result ({} for unit and None)
    panicked,        \* TRUE iff the last call panicked
    dropped,         \* the Scope popped by drop_scope since the last push
    fresh_names,     \* every name fresh() has returned so far
    fresh_in,        \* per scope on the stack, the names fresh() returned in it
    at_push          \* per pushed scope, Renamer.scopes as add_scope found it

vars == <<scopes, next_fresh, reserved_names, op, key, basename, ret,
          panicked, dropped, fresh_names, fresh_in, at_push>>

None == {}
Some(n) == {n}

EmptyMap == [k \in {} |-> ""]

\* ---- Scope<T> --------------------------------------------------------

Scope_new_with_reserved(reserved) == [name_map |-> EmptyMap, used |-> reserved]

Scope_new == Scope_new_with_reserved({})

contains_key(scope, k) == k \in DOMAIN scope.name_map

contains_value(scope, val) == val \in scope.used

\* a reserve that forgets the names claimed before
reserve_replacing(scope, val) == [scope EXCEPT !.used = {val}]

reserve(scope, val) == [scope EXCEPT !.used = @ \cup {val}]

\* HashMap::insert on Scope.name_map
name_map_insert(scope, k, target) ==
    [scope EXCEPT !.name_map =
        [j \in (DOMAIN @) \cup {k} |-> IF j = k THEN target ELSE @[j]]]

\* ---- Renamer<T> ------------------------------------------------------

Renamer_new_unreserved(reserved) ==
    [scopes |-> <<Scope_new>>, next_fresh |-> 0]

Renamer_new(reserved) ==
    [scopes |-> <<Scope_new_with_reserved(reserved)>>, next_fresh |-> 0]

current_scope(self) == self.scopes[Len(self.scopes)]

\* a current_scope_mut that borrows the base scope (first_mut for last_mut)
current_scope_mut_base(self, s) ==
    [self EXCEPT !.scopes[1] = s]

\* self after the scope current_scope_mut() borrows has become s
current_scope_mut_innermost(self, s) ==
    [self EXCEPT !.scopes[Len(self.scopes)] = s]

is_target_used_current_only(self, name) ==
    contains_value(current_scope(self), name)

is_target_used(self, name) ==
    \E x \in 1..Len(self.scopes) : contains_value(self.scopes[x], name)

format(b, i) == b \o "_" \o ToString(i)

RECURSIVE pick_loop(_, _, _, _)
pick_loop(self, b, target, i) ==
    IF is_target_used(self, target)
    THEN pick_loop(self, b, format(b, i), i + 1)
    ELSE target

\* the number of candidates the probe loop of pick_name tests
RECURSIVE pick_probes(_, _, _, _)
pick_probes(self, b, target, i) ==
    IF is_target_used(self, target)
    THEN 1 + pick_probes(self, b, format(b, i), i + 1)
    ELSE 1

pick_name_from_one(self, b) ==
    LET target == pick_loop(self, b, b, 1)
    IN  [self |-> current_scope_mut_innermost(self,
                      reserve(current_scope(self), target)),
         ret  |-> target]

\* pick_name: the renamer after the call and the name returned
pick_name(self, b) ==
    LET target == pick_loop(self, b, b, 0)
    IN  [self |-> current_scope_mut_innermost(self,
                      reserve(current_scope(self), target)),
         ret  |-> target]

\* an add_scope that pushes a copy of the current scope
Renamer_add_scope_cloning(self) ==
    [self EXCEPT !.scopes = Append(@, current_scope(self))]

Renamer_add_scope(self) ==
    [self EXCEPT !.scopes = Append(@, Scope_new)]

drop_scope_panics_never(self) == FALSE

drop_scope_panics(self) == Len(self.scopes) = 1

\* a pop that hands the popped scope's claims to the scope below
Renamer_pop_keeping_used(self) ==
    [self EXCEPT !.scopes =
        IF Len(@) = 1 THEN <<>>
        ELSE [SubSeq(@, 1, Len(@) - 1) EXCEPT ![Len(@) - 1].used =
                 @ \cup self.scopes[Len(self.scopes)].used]]

Renamer_pop(self) ==
    [self EXCEPT !.scopes = SubSeq(@, 1, Len(@) - 1)]

Renamer_insert_overwrite(self, k, b) ==
    LET p == pick_name(self, b)
    IN  [self |-> current_scope_mut_innermost(p.self,
                      name_map_insert(current_scope(p.self), k, p.ret)),
         ret  |-> Some(p.ret)]

\* an insert that refuses an identity bound anywhere on the stack
Renamer_insert_refusing_outer(self, k, b) ==
    IF \E x \in 1..Len(self.scopes) : contains_key(self.scopes[x], k)
    THEN [self |-> self, ret |-> None]
    ELSE LET p == pick_name(self, b)
         IN  [self |-> current_scope_mut_innermost(p.self,
                           name_map_insert(current_scope(p.self), k, p.ret)),
              ret  |-> Some(p.ret)]

Renamer_insert(self, k, b) ==
    IF contains_key(current_scope(self), k)
    THEN [self |-> self, ret |-> None]
    ELSE LET p == pick_name(self, b)
         IN  [self |-> current_scope_mut_innermost(p.self,
                           name_map_insert(current_scope(p.self), k, p.ret)),
              ret  |-> Some(p.ret)]

RECURSIVE get_scan(_, _, _)
get_scan(self, k, i) ==
    IF i = 0 THEN None
    ELSE IF k \in DOMAIN self.scopes[i].name_map
         THEN Some(self.scopes[i].name_map[k])
         ELSE get_scan(self, k, i - 1)

RECURSIVE get_scan_forward(_, _, _)
get_scan_forward(self, k, i) ==
    IF i > Len(self.scopes) THEN None
    ELSE IF k \in DOMAIN self.scopes[i].name_map
         THEN Some(self.scopes[i].name_map[k])
         ELSE get_scan_forward(self, k, i + 1)

Renamer_get_outermost_first(self, k) == get_scan_forward(self, k, 1)

Renamer_get_current_only(self, k) ==
    IF contains_key(current_scope(self), k)
    THEN Some(current_scope(self).name_map[k])
    ELSE None

Renamer_get(self, k) == get_scan(self, k, Len(self.scopes))

\* fresh without the increment of next_fresh
Renamer_fresh_no_bump(self) ==
    pick_name(self, "fresh" \o ToString(self.next_fresh))

\* fresh that keeps the counter when its base name had to be suffixed
Renamer_fresh_bump_if_free(self) ==
    LET base == "fresh" \o ToString(self.next_fresh)
        bumped == IF is_target_used(self, base)
                  THEN self
                  ELSE [self EXCEPT !.next_fresh = @ + 1]
    IN  pick_name(bumped, base)

Renamer_fresh(self) ==
    LET fresh == self.next_fresh
        bumped == [self EXCEPT !.next_fresh = @ + 1]
    IN  pick_name(bumped, "fresh" \o ToString(fresh))

\* ---- the state machine ----------------------------------------------

self == [scopes |-> scopes, next_fresh |-> next_fresh]

Init ==
    /\ reserved_names \in ReservedSets
    /\ scopes = Renamer_new(reserved_names).scopes
    /\ next_fresh = Renamer_new(reserved_names).next_fresh
    /\ op = "new"
    /\ key = 0
    /\ basename = ""
    /\ ret = None
    /\ panicked = FALSE
    /\ dropped = Scope_new
    /\ fresh_names = {}
    /\ fresh_in = <<{}>>
    /\ at_push = <<>>

add_scope ==
    /\ Len(scopes) < MaxDepth
    /\ scopes' = Renamer_add_scope(self).scopes
    /\ op' = "add_scope"
    /\ key' = 0
    /\ basename' = ""
    /\ ret' = None
    /\ panicked' = FALSE
    /\ dropped' = Scope_new
    /\ fresh_in' = Append(fresh_in, {})
    /\ at_push' = Append(at_push, scopes)
    /\ UNCHANGED <<next_fresh, reserved_names, fresh_names>>

drop_scope ==
    /\ op' = "drop_scope"
    /\ key' = 0
    /\ basename' = ""
    /\ ret' = None
    /\ IF drop_scope_panics(self)
       THEN /\ panicked' = TRUE
            /\ UNCHANGED <<scopes, dropped, fresh_in, at_push>>
       ELSE /\ panicked' = FALSE
            /\ dropped' = current_scope(self)
            /\ scopes' = Renamer_pop(self).scopes
            /\ fresh_in' = SubSeq(fresh_in, 1, Len(fresh_in) - 1)
            /\ at_push' = SubSeq(at_push, 1, Len(at_push) - 1)
    /\ UNCHANGED <<next_fresh, reserved_names, fresh_names>>

insert(k, b) ==
    /\ op' = "insert"
    /\ key' = k
    /\ basename' = b
    /\ scopes' = Renamer_insert(self, k, b).self.scopes
    /\ next_fresh' = Renamer_insert(self, k, b).self.next_fresh
    /\ ret' = Renamer_insert(self, k, b).ret
    /\ panicked' = FALSE
    /\ UNCHANGED <<reserved_names, dropped, fresh_names, fresh_in, at_push>>

get(k) ==
    /\ op' = "get"
    /\ key' = k
    /\ basename' = ""
    /\ ret' = Renamer_get(self, k)
    /\ panicked' = FALSE
    /\ UNCHANGED <<scopes, next_fresh, reserved_names, dropped,
                   fresh_names, fresh_in, at_push>>

fresh ==
    /\ next_fresh < MaxFresh
    /\ op' = "fresh"
    /\ key' = 0
    /\ basename' = ""
    /\ scopes' = Renamer_fresh(self).self.scopes
    /\ next_fresh' = Renamer_fresh(self).self.next_fresh
    /\ ret' = Some(Renamer_fresh(self).ret)
    /\ panicked' = FALSE
    /\ fresh_names' = fresh_names \cup {Renamer_fresh(self).ret}
    /\ fresh_in' = [fresh_in EXCEPT ![Len(fresh_in)] =
                       @ \cup {Renamer_fresh(self).ret}]
    /\ UNCHANGED <<reserved_names, dropped, at_push>>

Next ==
    \/ add_scope
    \/ drop_scope
    \/ \E k \in Keys, b \in Basenames : insert(k, b)
    \/ \E k \in Keys : get(k)
    \/ fresh

Spec == Init /\ [][Next]_vars

\* the same Renamer driven by a client whose basenames look like fresh names
NextFresh ==
    \/ add_scope
    \/ drop_scope
    \/ \E k \in FreshKeys, b \in FreshBasenames : insert(k, b)
    \/ \E k \in FreshKeys : get(k)
    \/ fresh

SpecFresh == Init /\ [][NextFresh]_vars

\* the same Renamer driven by a client that binds every identity under the
\* basename the first fresh call starts from
NextClash ==
    \/ add_scope
    \/ drop_scope
    \/ \E k \in Keys, b \in ClashBasenames : insert(k, b)
    \/ \E k \in Keys : get(k)
    \/ fresh

SpecClash == Init /\ [][NextClash]_vars

\* ---- helpers of the properties -----------------------------------------

\* every name claimed by some scope on the stack
UsedOnStack(ss) == UNION {ss[x].used : x \in 1..Len(ss)}

\* the levels of the stack that bind identity k
Binders(ss, k) == {x \in 1..Len(ss) : k \in DOMAIN ss[x].name_map}

\* the smallest suffix index i with b_i unclaimed on the stack
FirstFreeSuffix(ss, b) ==
    CHOOSE i \in 0..Cardinality(UsedOnStack(ss)) :
        /\ format(b, i) \notin UsedOnStack(ss)
        /\ \A j \in 0..(i - 1) : format(b, j) \in UsedOnStack(ss)

\* ---- properties ------------------------------------------------------

\* C1: the name a successful insert or fresh returns was, just before the
\* call, in the used set of no scope on the stack, base through innermost.
C1_ChosenNameUnusedOnWholeStack ==
    [][(op' \in {"insert", "fresh"} /\ ret' # None) =>
          \A n \in ret' : \A x \in 1..Len(scopes) : n \notin scopes[x].used]_vars

\* an insert in a nested scope whose basename only the base scope claims
C1_Witness ==
    /\ op = "insert"
    /\ Len(scopes) = 2
    /\ ret # None
    /\ ret # Some(basename)
    /\ basename \in scopes[1].used
    /\ \A n \in ret : n \in scopes[2].used /\ n \notin scopes[1].used

\* C2: every reserved name stays claimed in the base scope and no insert or
\* fresh call returns a reserved name.
C2_ReservedNeverProduced ==
    /\ Len(scopes) >= 1
    /\ reserved_names \subseteq scopes[1].used
    /\ (op \in {"insert", "fresh"} => ret \cap reserved_names = {})

\* after a push and a pop, an insert of a reserved basename in the base scope
C2_Witness ==
    /\ op = "insert"
    /\ Len(scopes) = 1
    /\ dropped # Scope_new
    /\ basename \in reserved_names
    /\ ret # None

\* C3: insert of an identity unbound in the innermost scope returns basename
\* when no scope claims it, else basename_i for the smallest i >= 0 with
\* basename_i claimed by no scope.
C3_FirstFreeCandidate ==
    [][(op' = "insert" /\ key' \notin DOMAIN scopes[Len(scopes)].name_map) =>
          ret' = Some(IF basename' \notin UsedOnStack(scopes)
                      THEN basename'
                      ELSE format(basename', FirstFreeSuffix(scopes, basename')))]_vars

\* an insert that had to probe past basename and basename_0
C3_Witness ==
    /\ op = "insert"
    /\ ret = Some(format(basename, 1))
    /\ basename \in UsedOnStack(scopes)
    /\ format(basename, 0) \in UsedOnStack(scopes)

\* the greatest element of a non-empty set of integers
MaxOf(S) == CHOOSE x \in S : \A y \in S : y <= x

\* the binding of k in the innermost scope of ss that binds it
InnermostBinding(ss, k) ==
    IF Binders(ss, k) = {} THEN None
    ELSE Some(ss[MaxOf(Binders(ss, k))].name_map[k])

\* the stack without its innermost scope
Enclosing(ss) == SubSeq(ss, 1, Len(ss) - 1)

\* C4: the name insert returns is the one bound to the identity, the binding
\* stays as it is under insert, get and fresh in the same scope, and get of
\* an identity bound in the innermost scope returns that binding.
C4_InsertGetRoundTrip ==
    [][/\ (op' = "insert" /\ ret' # None) =>
             /\ key' \in DOMAIN scopes'[Len(scopes')].name_map
             /\ ret' = Some(scopes'[Len(scopes')].name_map[key'])
       /\ op' \in {"insert", "get", "fresh"} =>
             \A k \in DOMAIN scopes[Len(scopes)].name_map :
                 /\ Len(scopes') = Len(scopes)
                 /\ k \in DOMAIN scopes'[Len(scopes')].name_map
                 /\ scopes'[Len(scopes')].name_map[k] =
                        scopes[Len(scopes)].name_map[k]
       /\ (op' = "get" /\ key' \in DOMAIN scopes[Len(scopes)].name_map) =>
             ret' = Some(scopes[Len(scopes)].name_map[key'])]_vars

\* a get of an identity of the innermost scope after both identities were
\* bound there and a fresh name was taken
C4_Witness ==
    /\ op = "get"
    /\ DOMAIN scopes[Len(scopes)].name_map = Keys
    /\ next_fresh > 0
    /\ ret = Some(scopes[Len(scopes)].name_map[key])

\* C5: get returns the binding of the innermost scope that binds the
\* identity; no call changes a binding of an enclosing scope, and after a
\* drop_scope the innermost binding is the one the enclosing scopes held.
C5_Shadowing ==
    [][/\ op' = "get" => ret' = InnermostBinding(scopes, key')
       /\ \A d \in 1..(Len(scopes) - 1) :
             /\ d <= Len(scopes')
             /\ scopes'[d].name_map = scopes[d].name_map
       /\ (op' = "drop_scope" /\ ~panicked') =>
             \A k \in Keys :
                 InnermostBinding(scopes', k) =
                     InnermostBinding(Enclosing(scopes), k)]_vars

\* a get in the base scope of an identity the dropped scope had rebound
\* under another name
C5_Witness ==
    /\ op = "get"
    /\ Len(scopes) = 1
    /\ key \in DOMAIN dropped.name_map
    /\ key \in DOMAIN scopes[1].name_map
    /\ ret = Some(scopes[1].name_map[key])
    /\ ret # Some(dropped.name_map[key])

\* C6: insert of an identity already bound in the innermost scope returns
\* None and changes neither the scopes nor the fresh counter.
C6_DuplicateInsertNoOp ==
    [][(op' = "insert" /\ key' \in DOMAIN scopes[Len(scopes)].name_map) =>
          /\ ret' = None
          /\ scopes' = scopes
          /\ next_fresh' = next_fresh]_vars

\* a refused insert whose basename differs from the bound name and is free
C6_Witness ==
    /\ op = "insert"
    /\ ret = None
    /\ key \in DOMAIN scopes[Len(scopes)].name_map
    /\ scopes[Len(scopes)].name_map[key] # basename
    /\ basename \notin UsedOnStack(scopes)

\* C7: drop_scope at depth 1 panics and leaves the base scope and the fresh
\* counter as they were.
C7_UnderflowIsFatal ==
    [][(op' = "drop_scope" /\ Len(scopes) = 1) =>
          /\ panicked'
          /\ scopes' = scopes
          /\ next_fresh' = next_fresh]_vars

\* a panicking drop_scope after the added scope was dropped, with the base
\* scope still holding a binding
C7_Witness ==
    /\ op = "drop_scope"
    /\ panicked
    /\ Len(scopes) = 1
    /\ dropped # Scope_new
    /\ DOMAIN scopes[1].name_map # {}

\* C8: the scope stack is never empty.
C8_StackNeverEmpty == Len(scopes) >= 1

\* the state a drop_scope attempted on the fresh Renamer leaves
C8_Witness ==
    /\ op = "drop_scope"
    /\ panicked
    /\ Len(scopes) = 1
    /\ dropped = Scope_new
    /\ scopes[1] = Scope_new_with_reserved(reserved_names)

\* C9: get returns None exactly when no scope on the stack binds the
\* identity and changes nothing; after drop_scope the identities bound only
\* in the dropped scope are looked up as None.
C9_GetAbsentIffUnbound ==
    [][/\ op' = "get" =>
             /\ (ret' = None <=> Binders(scopes, key') = {})
             /\ scopes' = scopes
             /\ next_fresh' = next_fresh
       /\ (op' = "drop_scope" /\ ~panicked') =>
             \A k \in Keys :
                 Binders(scopes, k) = {Len(scopes)} =>
                     Renamer_get(self', k) = None]_vars

\* a get answering None for an identity the dropped scope had bound
C9_Witness ==
    /\ op = "get"
    /\ ret = None
    /\ key \in DOMAIN dropped.name_map

C11_FreshNamesDistinct ==
    [][op' = "fresh" => ret' \cap fresh_names = {}]_vars

\* a second fresh call, suffixed because its base name was claimed, made
\* after the scope holding the first fresh name was dropped
C11_Witness ==
    /\ op = "fresh"
    /\ next_fresh = 2
    /\ Len(scopes) = 1
    /\ dropped.used \cap fresh_names # {}
    /\ ret # Some("fresh1")
    /\ ret \subseteq fresh_names
    /\ Cardinality(fresh_names) = 2

\* a Renamer with one scope that claims every name claimed on the stack ss,
\* binds nothing and has not handed out a fresh name
Flattened(ss) ==
    [scopes |-> <<Scope_new_with_reserved(UsedOnStack(ss))>>, next_fresh |-> 0]

\* C12: the name a successful insert returns is the name pick_name chooses
\* for the same basename in a one-scope Renamer claiming the same names with
\* the fresh counter at 0, and is the same for every identity that is
\* unbound in the innermost scope.
C12_NameDependsOnBasenameAndUsedUnion ==
    [][(op' = "insert" /\ ret' # None) =>
          /\ ret' = Some(pick_name(Flattened(scopes), basename').ret)
          /\ \A k \in Keys \ DOMAIN scopes[Len(scopes)].name_map :
                 Renamer_insert(self, k, basename').ret = ret']_vars

\* a suffixed insert in a nested scope, the basename claimed by the base
\* scope only, names claimed in both scopes and the fresh counter advanced
C12_Witness ==
    /\ op = "insert"
    /\ Len(scopes) = 2
    /\ next_fresh > 0
    /\ ret # None
    /\ ret # Some(basename)
    /\ basename \in scopes[1].used
    /\ basename \notin scopes[2].used
    /\ Cardinality(scopes[2].used) >= 2
    /\ DOMAIN scopes[2].name_map # Keys

\* the bindings on the stack, as <<level, identity>>
BoundAt(ss) == {<<d, k>> \in (1..Len(ss)) \X Keys : k \in DOMAIN ss[d].name_map}

\* C13: the bindings on the stack carry pairwise distinct names, get never
\* answers the same name for two identities, and no bound name is a name
\* fresh returned in a scope still on the stack.
C13_BoundNamesDistinct ==
    /\ \A p, q \in BoundAt(scopes) :
           p # q => scopes[p[1]].name_map[p[2]] # scopes[q[1]].name_map[q[2]]
    /\ \A a, b \in Keys :
           (a # b /\ Renamer_get(self, a) # None) =>
               Renamer_get(self, a) # Renamer_get(self, b)
    /\ \A p \in BoundAt(scopes) : \A d \in 1..Len(fresh_in) :
           scopes[p[1]].name_map[p[2]] \notin fresh_in[d]

\* one identity bound at both levels, the other identity bound as well, all
\* from the basename whose plain form fresh returned in the base scope
C13_Witness ==
    /\ Len(scopes) = 2
    /\ DOMAIN scopes[1].name_map = Keys
    /\ 1 \in DOMAIN scopes[2].name_map
    /\ "fresh0" \in fresh_in[1]
    /\ op = "insert"
    /\ basename = "fresh0"
    /\ ret # None

\* C14: insert returns None exactly when the innermost scope binds the
\* identity; an identity bound only in enclosing scopes is bound again, under
\* a name other than the enclosing ones, and the enclosing scopes stay as
\* they were.
C14_InsertAbsentIffBoundInnermost ==
    [][op' = "insert" =>
          /\ ret' = None <=> key' \in DOMAIN scopes[Len(scopes)].name_map
          /\ \A d \in 1..(Len(scopes) - 1) :
                 (/\ key' \in DOMAIN scopes[d].name_map
                  /\ key' \notin DOMAIN scopes[Len(scopes)].name_map) =>
                     /\ ret' # None
                     /\ ret' # Some(scopes[d].name_map[key'])
                     /\ ret' = Some(scopes'[Len(scopes')].name_map[key'])
                     /\ scopes'[d] = scopes[d]]_vars

\* an identity bound in the base scope under the plain basename, inserted
\* again in the nested scope with the same basename
C14_Witness ==
    /\ op = "insert"
    /\ Len(scopes) = 2
    /\ key \in DOMAIN scopes[1].name_map
    /\ scopes[1].name_map[key] = basename
    /\ ret = Some(format(basename, 0))
    /\ key \in DOMAIN scopes[2].name_map
    /\ scopes[2].name_map[key] \in ret

\* C15: insert and fresh leave every enclosing scope as it was, add_scope
\* leaves every existing scope as it was, and a drop_scope brings every get
\* result and every name's used status back to what the matching add_scope
\* found.
C15_OnlyInnermostMutated ==
    [][/\ op' \in {"insert", "fresh"} =>
             /\ Len(scopes') = Len(scopes)
             /\ \A d \in 1..(Len(scopes) - 1) : scopes'[d] = scopes[d]
       /\ op' = "add_scope" =>
             \A d \in 1..Len(scopes) : scopes'[d] = scopes[d]
       /\ (op' = "drop_scope" /\ ~panicked') =>
             /\ UsedOnStack(scopes') = UsedOnStack(at_push[Len(at_push)])
             /\ \A k \in Keys :
                    InnermostBinding(scopes', k) =
                        InnermostBinding(at_push[Len(at_push)], k)]_vars

\* the drop_scope that closes a nested scope in which an identity of the
\* base scope was rebound and a fresh name was taken
C15_Witness ==
    /\ op = "drop_scope"
    /\ ~panicked
    /\ Len(scopes) = 1
    /\ DOMAIN dropped.name_map \cap DOMAIN scopes[1].name_map # {}
    /\ dropped.used \cap fresh_names # {}

\* C16: a scope that stays on the stack keeps every claimed name and every
\* binding it had, and the stack loses a scope only by drop_scope, which
\* removes the innermost scope whole.
C16_ScopeContentOnlyGrows ==
    [][/\ \A d \in 1..Len(scopes) :
             d <= Len(scopes') =>
                 /\ scopes[d].used \subseteq scopes'[d].used
                 /\ \A k \in DOMAIN scopes[d].name_map :
                        /\ k \in DOMAIN scopes'[d].name_map
                        /\ scopes'[d].name_map[k] = scopes[d].name_map[k]
       /\ Len(scopes') < Len(scopes) =>
             /\ op' = "drop_scope"
             /\ scopes' = Enclosing(scopes)]_vars

\* a nested scope that has taken both bindings and a fresh name, one by one
C16_Witness ==
    /\ op = "fresh"
    /\ Len(scopes) = 2
    /\ DOMAIN scopes[2].name_map = Keys
    /\ Cardinality(scopes[2].used) >= 3
    /\ ret \subseteq scopes[2].used

\* C17: the fresh counter is 0 after new, every fresh call adds exactly 1 to
\* it and changes no binding and no get result, and no other call changes it.
C17_FreshCounter ==
    [][/\ op = "new" => next_fresh = 0
       /\ op' = "fresh" =>
             /\ next_fresh' = next_fresh + 1
             /\ Len(scopes') = Len(scopes)
             /\ \A d \in 1..Len(scopes) :
                    scopes'[d].name_map = scopes[d].name_map
             /\ \A k \in Keys : Renamer_get(self', k) = Renamer_get(self, k)
       /\ op' # "fresh" => next_fresh' = next_fresh]_vars

\* the second fresh call, its name suffixed, made in the base scope after the
\* nested scope holding the first fresh name was dropped
C17_Witness ==
    /\ op = "fresh"
    /\ next_fresh = 2
    /\ ret # Some("fresh" \o ToString(next_fresh - 1))
    /\ Len(scopes) = 1
    /\ dropped.used \cap fresh_names # {}
    /\ DOMAIN scopes[1].name_map # {}

\* C18: the depth is 1 after new; add_scope does not panic and pushes one
\* scope with no binding and no claimed name; drop_scope at depth 2 or more
\* does not panic and removes the innermost scope only; insert, get and
\* fresh keep the depth; the one call that panics is drop_scope at depth 1.
C18_DepthStateMachine ==
    [][/\ op = "new" => Len(scopes) = 1
       /\ op' = "add_scope" =>
             /\ Len(scopes') = Len(scopes) + 1
             /\ DOMAIN scopes'[Len(scopes')].name_map = {}
             /\ scopes'[Len(scopes')].used = {}
             /\ Enclosing(scopes') = scopes
       /\ (op' = "drop_scope" /\ Len(scopes) >= 2) =>
             /\ Len(scopes') = Len(scopes) - 1
             /\ scopes' = Enclosing(scopes)
       /\ op' \in {"insert", "get", "fresh"} => Len(scopes') = Len(scopes)
       /\ panicked' <=> (op' = "drop_scope" /\ Len(scopes) = 1)]_vars

\* an add_scope on a base scope that holds bindings and claimed names
C18_Witness ==
    /\ op = "add_scope"
    /\ ~panicked
    /\ Len(scopes) = 2
    /\ DOMAIN scopes[1].name_map # {}
    /\ Cardinality(scopes[1].used) >= 2
    /\ scopes[2] = Scope_new

\* the basename the last call handed to pick_name, seen from the state
\* before the call
PickedBase == IF op' = "fresh" THEN "fresh" \o ToString(next_fresh) ELSE basename'

\* the number of claimed names of the form b_i
SuffixedUsed(ss, b) ==
    Cardinality({i \in 0..Cardinality(UsedOnStack(ss)) :
                    format(b, i) \in UsedOnStack(ss)})

\* C19: a call that reaches pick_name returns a name after testing at most
\* (number of claimed names + 1) candidates, and the suffix index of the
\* name is at most the number of claimed names of the form basename_i.
C19_ProbeLoopBounded ==
    [][(\/ op' = "fresh"
        \/ op' = "insert" /\ key' \notin DOMAIN scopes[Len(scopes)].name_map) =>
          /\ pick_probes(self, PickedBase, PickedBase, 0) <=
                 Cardinality(UsedOnStack(scopes)) + 1
          /\ \/ ret' = Some(PickedBase)
             \/ \E i \in 0..SuffixedUsed(scopes, PickedBase) :
                    ret' = Some(format(PickedBase, i))]_vars

\* a fresh call that tested fresh0, fresh0_0 and fresh0_1
C19_Witness ==
    /\ op = "fresh"
    /\ next_fresh = 1
    /\ ret = Some("fresh0_1")
    /\ {"fresh0", "fresh0_0"} \subseteq UsedOnStack(scopes)

====
